---- MODULE Spec2Model ----
(***************************************************************************)
(* The Flask login application of src/server.py: one browser session (the  *)
(* signed session cookie) and the five route handlers home, callback,      *)
(* login, logout and protected, handled one request at a time.             *)
(*                                                                         *)
(* A Python dict entry that may be absent is a set with at most one        *)
(* element: None == {} is "key absent" and Some(v) == {v} is "key present  *)
(* with value v".  The session dict is a record of its three kinds of      *)
(* entries:                                                                *)
(*   user                  session["user"], the token set of the login     *)
(*   redirect_after_login  session["redirect_after_login"]                 *)
(*   states                the entries session["_state_auth0_<state>"]     *)
(*                         that oauth.auth0 keeps for the flows in flight  *)
(*                         (one per state, with the nonce)                  *)
(* The two calls into the OAuth client library (lines 74 and 96) are       *)
(* modelled by what the library does to the session and by the outcomes    *)
(* the provider can produce, which are inputs of the request.              *)
(***************************************************************************)
EXTENDS FiniteSets, Integers, Sequences, TLC

(* ---- bounds of the model ---- *)
\* the number of distinct state values the library draws
MaxStates == 2

(* ---- values ---- *)
States == 1 .. MaxStates
\* a request without a state parameter
NoState == 0
Nonces == {"N1", "N2"}
Subs == {"user123", "user456"}
Emails == {"a@example.com"}

None == {}
Some(v) == {v}
Opt(S) == {None} \cup {Some(v) : v \in S}
TheValue(opt) == CHOOSE v \in opt : TRUE
\* dict.get(key, default) on an entry that may be absent
Get(opt, default) == IF opt = None THEN default ELSE TheValue(opt)

\* the claims of an ID token that passed validation: token["userinfo"]
UserInfos == [sub : Opt(Subs), email : Opt(Emails)]
\* the token set returned by authorize_access_token
Tokens == [userinfo : Opt(UserInfos)]

\* a /callback request to a session: the query (or form) parameters that are
\* read, and the time it arrives at, as the set of the states whose entries in
\* the session have expired by then
CallbackRequests(sess) ==
    [error : BOOLEAN, code : BOOLEAN, state : States \cup {NoState},
     expired : SUBSET {e.state : e \in sess.states}]

\* what the provider answers in a token exchange
\*   "exchange_error"  non-2xx or malformed token response
\*   "no_id_token"     a token response without an ID token
\*   "bad_id_token"    an ID token failing signature, issuer, audience or expiry
\*   "id_token"        a well-formed, signed ID token with these claims
ProviderReplies ==
    [kind : {"exchange_error", "no_id_token", "bad_id_token"},
     nonce : {"N1"}, sub : {None}, email : {None}]
    \cup [kind : {"id_token"}, nonce : Nonces, sub : Opt(Subs), email : Opt(Emails)]

\* session   the session cookie of the browser
\* resp      the response to the last request, with what the handler did for it:
\*           the state parameter it received (callback) or issued (login), the
\*           user handed to the template, the audit event it logged, the
\*           exception it logged, whether it called the token endpoint and the
\*           claims of the ID token the provider returned
\* prev      handler and status of the request before the last one, kept when
\*           tracing is set (SpecTrace)
\* consumed  the states accepted by a callback and not issued again since
\* nreq      parity of the number of requests handled
\* other     two requests of the same browser in flight at once (SpecConc):
\*           how far they are, and the session record set aside meanwhile
\*             "idle"      none in flight
\*             "sent"      both sent with the same cookie, other.cookie; the
\*                         first one's handler works on session
\*             "first"     the first is done and session is the record it
\*                         leaves; other.cookie is the cookie both carry
\*             "handling"  the second one's handler works on session, its
\*                         own copy of the cookie; other.cookie is the
\*                         record the first left
\*             "answered"  the second is done and session is the record it
\*                         leaves; other.cookie is the record the first left
\*             "received"  the browser has both answers, the second one's
\*                         last; session is its cookie, nothing is set aside
VARIABLES session, resp, prev, consumed, nreq, tracing, other
vars == <<session, resp, prev, consumed, nreq, tracing, other>>

EmptySession == [user |-> None, redirect_after_login |-> None, states |-> {}]

NoResp ==
    [handler |-> "none", state |-> NoState, status |-> 0, location |-> "", body |-> "",
     user |-> None, audit |-> {}, log |-> "", tokenCall |-> FALSE, id_token |-> None]

Init ==
    /\ session = EmptySession
    /\ resp = NoResp
    /\ prev = [handler |-> "none", status |-> 0]
    /\ consumed = {}
    /\ nreq = 0
    /\ tracing = FALSE
    /\ other = [pc |-> "idle", cookie |-> EmptySession]

\* bookkeeping of every handled request
Handled ==
    /\ nreq' = 1 - nreq
    /\ prev' = IF tracing THEN [handler |-> resp.handler, status |-> resp.status] ELSE prev
    /\ tracing' = tracing
    /\ other.pc \notin {"first", "answered"}
    /\ other' = CASE other.pc = "sent" -> [other EXCEPT !.pc = "first"]
                  [] other.pc = "handling" -> [other EXCEPT !.pc = "answered"]
                  [] other.pc = "received" -> [other EXCEPT !.pc = "idle"]
                  [] OTHER -> other

(* ---- the OAuth client library, as used at lines 74 and 96 ---- *)

get_state_data(sess, state) == {e \in sess.states : e.state = state}

\* variant: the entry of the state is read but never popped
clear_state_data_keep(sess, state, expired) ==
    [sess EXCEPT !.states = {e \in @ : e.state = state \/ e.state \notin expired}]

\* pops the entry of this state, then drops every entry whose expiry time has
\* passed: expired is the set of the states of those entries
clear_state_data(sess, state, expired) ==
    [sess EXCEPT !.states = {e \in @ : e.state # state /\ e.state \notin expired}]

\* variant: the state data is generated but not saved in the session
set_state_data_lost(sess, state, nonce) == sess

set_state_data(sess, state, nonce) ==
    [sess EXCEPT !.states = {e \in @ : e.state # state}
                            \cup {[state |-> state, nonce |-> nonce]}]

\* fetch_access_token and the ID token checks: the outcomes of the token
\* exchange for a flow whose stored data is state_data, one per provider reply
fetch_access_token(sess, state_data) ==
    LET claims(reply) ==
            IF reply.kind = "id_token"
            THEN Some([sub |-> reply.sub, email |-> reply.email]) ELSE None
        raise(reply, e) ==
            [session |-> sess, tokenCall |-> TRUE, id_token |-> claims(reply),
             token |-> None, error |-> e]
        return(reply, userinfo) ==
            [session |-> sess, tokenCall |-> TRUE, id_token |-> claims(reply),
             token |-> Some([userinfo |-> userinfo]), error |-> ""]
    IN  { IF reply.kind = "exchange_error" THEN raise(reply, "OAuthError")
          ELSE IF reply.kind = "no_id_token" THEN return(reply, None)
          ELSE IF reply.kind = "bad_id_token" THEN raise(reply, "InvalidTokenError")
          ELSE IF reply.sub = None THEN raise(reply, "MissingClaimError")
          ELSE IF reply.nonce # state_data.nonce THEN raise(reply, "InvalidClaimError")
          ELSE return(reply, Some([sub |-> reply.sub, email |-> reply.email]))
        : reply \in ProviderReplies }

\* variant: the state of the request is not checked against the session
authorize_access_token_nocheck(sess, req) ==
    LET state_data == get_state_data(sess, req.state)
        cleared == clear_state_data(sess, req.state, req.expired)
        raise(s, e) ==
            {[session |-> s, tokenCall |-> FALSE, id_token |-> None,
              token |-> None, error |-> e]}
    IN  IF req.error THEN raise(sess, "OAuthError")
        ELSE IF ~req.code THEN raise(sess, "BadRequestKeyError")
        ELSE fetch_access_token(cleared, Get(state_data, [state |-> req.state, nonce |-> "N1"]))

\* variant: the state is checked only after the token exchange
authorize_access_token_late(sess, req) ==
    LET state_data == get_state_data(sess, req.state)
        cleared == clear_state_data(sess, req.state, req.expired)
        raise(s, called, e) ==
            {[session |-> s, tokenCall |-> called, id_token |-> None,
              token |-> None, error |-> e]}
    IN  IF req.error THEN raise(sess, FALSE, "OAuthError")
        ELSE IF ~req.code THEN raise(sess, FALSE, "BadRequestKeyError")
        ELSE IF state_data = None THEN raise(cleared, TRUE, "MismatchingStateError")
        ELSE fetch_access_token(cleared, TheValue(state_data))

\* oauth.auth0.authorize_access_token(): its possible results, each with the
\* session it leaves, whether the token endpoint was called, and the token it
\* returns or the exception it raises
authorize_access_token(sess, req) ==
    LET state_data == get_state_data(sess, req.state)
        cleared == clear_state_data(sess, req.state, req.expired)
        raise(s, e) ==
            {[session |-> s, tokenCall |-> FALSE, id_token |-> None,
              token |-> None, error |-> e]}
    IN  IF req.error THEN raise(sess, "OAuthError")
        ELSE IF ~req.code THEN raise(sess, "BadRequestKeyError")
        ELSE IF state_data = None THEN raise(cleared, "MismatchingStateError")
        ELSE fetch_access_token(cleared, TheValue(state_data))

(* ---- the route handlers ---- *)

\* user_info.get("sub", "unknown") and user_info.get("email", "unknown") of a token
user_id(token) == Get(Get(token.userinfo, [sub |-> None, email |-> None]).sub, "unknown")
email(token) == Get(Get(token.userinfo, [sub |-> None, email |-> None]).email, "unknown")

\* variant: rendering the home page drops the pending redirect target
home_pop ==
    /\ resp' = [NoResp EXCEPT !.handler = "home", !.status = 200, !.body = "home.html",
                              !.user = session.user]
    /\ session' = [session EXCEPT !.redirect_after_login = None]
    /\ Handled
    /\ UNCHANGED consumed

home ==
    /\ resp' = [NoResp EXCEPT !.handler = "home", !.status = 200, !.body = "home.html",
                              !.user = session.user]
    /\ Handled
    /\ UNCHANGED <<session, consumed>>

\* variant: the redirect target is read with get, not pop
callback_get(req) ==
    \E r \in authorize_access_token(session, req) :
    LET token == TheValue(r.token)
    IN  /\ IF r.token # None
           THEN /\ session' = [r.session EXCEPT !.user = Some(token)]
                /\ resp' = [NoResp EXCEPT
                              !.handler = "callback", !.state = req.state,
                              !.status = 302,
                              !.location = Get(r.session.redirect_after_login, "/"),
                              !.tokenCall = r.tokenCall, !.id_token = r.id_token,
                              !.audit = {[kind |-> "LOGIN", user_id |-> user_id(token),
                                          email |-> email(token), path |-> ""]}]
           ELSE /\ session' = r.session
                /\ resp' = [NoResp EXCEPT
                              !.handler = "callback", !.state = req.state,
                              !.status = 500,
                              !.body = "An error occurred during login callback.",
                              !.log = r.error,
                              !.tokenCall = r.tokenCall, !.id_token = r.id_token]
        /\ consumed' = IF r.token # None THEN consumed \cup {req.state} ELSE consumed
        /\ Handled

\* variant: the error path drops the user from the session
callback_drop(req) ==
    \E r \in authorize_access_token(session, req) :
    LET token == TheValue(r.token)
    IN  /\ IF r.token # None
           THEN /\ session' = [r.session EXCEPT !.user = Some(token),
                                                !.redirect_after_login = None]
                /\ resp' = [NoResp EXCEPT
                              !.handler = "callback", !.state = req.state,
                              !.status = 302,
                              !.location = Get(r.session.redirect_after_login, "/"),
                              !.tokenCall = r.tokenCall, !.id_token = r.id_token,
                              !.audit = {[kind |-> "LOGIN", user_id |-> user_id(token),
                                          email |-> email(token), path |-> ""]}]
           ELSE /\ session' = [r.session EXCEPT !.user = None]
                /\ resp' = [NoResp EXCEPT
                              !.handler = "callback", !.state = req.state,
                              !.status = 500,
                              !.body = "An error occurred during login callback.",
                              !.log = r.error,
                              !.tokenCall = r.tokenCall, !.id_token = r.id_token]
        /\ consumed' = IF r.token # None THEN consumed \cup {req.state} ELSE consumed
        /\ Handled

\* variant: the token is stored with setdefault, keeping a user already there
callback_setdefault(req) ==
    \E r \in authorize_access_token(session, req) :
    LET token == TheValue(r.token)
    IN  /\ IF r.token # None
           THEN /\ session' = [r.session EXCEPT
                                 !.user = IF @ = None THEN Some(token) ELSE @,
                                 !.redirect_after_login = None]
                /\ resp' = [NoResp EXCEPT
                              !.handler = "callback", !.state = req.state,
                              !.status = 302,
                              !.location = Get(r.session.redirect_after_login, "/"),
                              !.tokenCall = r.tokenCall, !.id_token = r.id_token,
                              !.audit = {[kind |-> "LOGIN", user_id |-> user_id(token),
                                          email |-> email(token), path |-> ""]}]
           ELSE /\ session' = r.session
                /\ resp' = [NoResp EXCEPT
                              !.handler = "callback", !.state = req.state,
                              !.status = 500,
                              !.body = "An error occurred during login callback.",
                              !.log = r.error,
                              !.tokenCall = r.tokenCall, !.id_token = r.id_token]
        /\ consumed' = IF r.token # None THEN consumed \cup {req.state} ELSE consumed
        /\ Handled

\* variant: the error page shows the exception
callback_leak(req) ==
    \E r \in authorize_access_token(session, req) :
    LET token == TheValue(r.token)
    IN  /\ IF r.token # None
           THEN /\ session' = [r.session EXCEPT !.user = Some(token),
                                                !.redirect_after_login = None]
                /\ resp' = [NoResp EXCEPT
                              !.handler = "callback", !.state = req.state,
                              !.status = 302,
                              !.location = Get(r.session.redirect_after_login, "/"),
                              !.tokenCall = r.tokenCall, !.id_token = r.id_token,
                              !.audit = {[kind |-> "LOGIN", user_id |-> user_id(token),
                                          email |-> email(token), path |-> ""]}]
           ELSE /\ session' = r.session
                /\ resp' = [NoResp EXCEPT
                              !.handler = "callback", !.state = req.state,
                              !.status = 500,
                              !.body = "Error in callback: " \o r.error,
                              !.log = r.error,
                              !.tokenCall = r.tokenCall, !.id_token = r.id_token]
        /\ consumed' = IF r.token # None THEN consumed \cup {req.state} ELSE consumed
        /\ Handled

\* variant: the redirect target is popped before the token is obtained
callback_popfirst(req) ==
    \E r \in authorize_access_token(session, req) :
    LET token == TheValue(r.token)
    IN  /\ IF r.token # None
           THEN /\ session' = [r.session EXCEPT !.user = Some(token),
                                                !.redirect_after_login = None]
                /\ resp' = [NoResp EXCEPT
                              !.handler = "callback", !.state = req.state,
                              !.status = 302,
                              !.location = Get(r.session.redirect_after_login, "/"),
                              !.tokenCall = r.tokenCall, !.id_token = r.id_token,
                              !.audit = {[kind |-> "LOGIN", user_id |-> user_id(token),
                                          email |-> email(token), path |-> ""]}]
           ELSE /\ session' = [r.session EXCEPT !.redirect_after_login = None]
                /\ resp' = [NoResp EXCEPT
                              !.handler = "callback", !.state = req.state,
                              !.status = 500,
                              !.body = "An error occurred during login callback.",
                              !.log = r.error,
                              !.tokenCall = r.tokenCall, !.id_token = r.id_token]
        /\ consumed' = IF r.token # None THEN consumed \cup {req.state} ELSE consumed
        /\ Handled

callback(req) ==
    \E r \in authorize_access_token(session, req) :
    LET token == TheValue(r.token)
    IN  /\ IF r.token # None
           THEN /\ session' = [r.session EXCEPT !.user = Some(token),
                                                !.redirect_after_login = None]
                /\ resp' = [NoResp EXCEPT
                              !.handler = "callback", !.state = req.state,
                              !.status = 302,
                              !.location = Get(r.session.redirect_after_login, "/"),
                              !.tokenCall = r.tokenCall, !.id_token = r.id_token,
                              !.audit = {[kind |-> "LOGIN", user_id |-> user_id(token),
                                          email |-> email(token), path |-> ""]}]
           ELSE /\ session' = r.session
                /\ resp' = [NoResp EXCEPT
                              !.handler = "callback", !.state = req.state,
                              !.status = 500,
                              !.body = "An error occurred during login callback.",
                              !.log = r.error,
                              !.tokenCall = r.tokenCall, !.id_token = r.id_token]
        /\ consumed' = IF r.token # None THEN consumed \cup {req.state} ELSE consumed
        /\ Handled

\* variant: starting a login drops the user of the session
login_drop(fails, state, nonce) ==
    /\ IF fails
       THEN /\ session' = session
            /\ resp' = [NoResp EXCEPT !.handler = "login", !.status = 500,
                                      !.body = "An error occurred during login.",
                                      !.log = "Exception"]
            /\ consumed' = consumed
       ELSE /\ session' = [set_state_data(session, state, nonce) EXCEPT !.user = None]
            /\ resp' = [NoResp EXCEPT !.handler = "login", !.state = state, !.status = 302,
                                      !.location = "provider/authorize"]
            /\ consumed' = consumed \ {state}
    /\ Handled

\* variant: a login without pending redirect target stores one of its own
login_next(fails, state, nonce) ==
    /\ IF fails
       THEN /\ session' = session
            /\ resp' = [NoResp EXCEPT !.handler = "login", !.status = 500,
                                      !.body = "An error occurred during login.",
                                      !.log = "Exception"]
            /\ consumed' = consumed
       ELSE /\ session' = [set_state_data(session, state, nonce) EXCEPT
                                 !.redirect_after_login =
                                     IF @ = None THEN Some("/next") ELSE @]
            /\ resp' = [NoResp EXCEPT !.handler = "login", !.state = state, !.status = 302,
                                      !.location = "provider/authorize"]
            /\ consumed' = consumed \ {state}
    /\ Handled

login(fails, state, nonce) ==
    /\ IF fails
       THEN /\ session' = session
            /\ resp' = [NoResp EXCEPT !.handler = "login", !.status = 500,
                                      !.body = "An error occurred during login.",
                                      !.log = "Exception"]
            /\ consumed' = consumed
       ELSE /\ session' = set_state_data(session, state, nonce)
            /\ resp' = [NoResp EXCEPT !.handler = "login", !.state = state, !.status = 302,
                                      !.location = "provider/authorize"]
            /\ consumed' = consumed \ {state}
    /\ Handled

\* variant: the session is cleared after the logout URL is built
logout_late(fails) ==
    /\ session' = IF fails THEN session ELSE EmptySession
    /\ resp' = IF fails
               THEN [NoResp EXCEPT !.handler = "logout", !.status = 500,
                                   !.body = "An error occurred during logout.",
                                   !.log = "Exception"]
               ELSE [NoResp EXCEPT !.handler = "logout", !.status = 302,
                                   !.location = "provider/v2/logout"]
    /\ Handled
    /\ UNCHANGED consumed

\* variant: logout removes the user and the redirect target by name
logout_pop(fails) ==
    /\ session' = [session EXCEPT !.user = None, !.redirect_after_login = None]
    /\ resp' = IF fails
               THEN [NoResp EXCEPT !.handler = "logout", !.status = 500,
                                   !.body = "An error occurred during logout.",
                                   !.log = "Exception"]
               ELSE [NoResp EXCEPT !.handler = "logout", !.status = 302,
                                   !.location = "provider/v2/logout"]
    /\ Handled
    /\ UNCHANGED consumed

logout(fails) ==
    /\ session' = EmptySession
    /\ resp' = IF fails
               THEN [NoResp EXCEPT !.handler = "logout", !.status = 500,
                                   !.body = "An error occurred during logout.",
                                   !.log = "Exception"]
               ELSE [NoResp EXCEPT !.handler = "logout", !.status = 302,
                                   !.location = "provider/v2/logout"]
    /\ Handled
    /\ UNCHANGED consumed

\* variant: the page is rendered whether or not the session holds a user
protected_open(path) ==
    /\ session' = session
    /\ resp' = [NoResp EXCEPT
                  !.handler = "protected", !.status = 200,
                  !.body = "protected.html", !.user = session.user,
                  !.audit = {[kind |-> "ACCESS", user_id |-> "unknown",
                              email |-> "unknown", path |-> path]}]
    /\ Handled
    /\ UNCHANGED consumed

\* variant: the requested path is not recorded before the redirect
protected_forget(path) ==
    /\ IF session.user = None
       THEN /\ session' = session
            /\ resp' = [NoResp EXCEPT
                          !.handler = "protected", !.status = 302, !.location = "/login",
                          !.audit = {[kind |-> "UNAUTHORIZED_ACCESS", user_id |-> "",
                                      email |-> "", path |-> path]}]
       ELSE /\ session' = session
            /\ resp' = [NoResp EXCEPT
                          !.handler = "protected", !.status = 200,
                          !.body = "protected.html", !.user = session.user,
                          !.audit = {[kind |-> "ACCESS",
                                      user_id |-> user_id(TheValue(session.user)),
                                      email |-> email(TheValue(session.user)),
                                      path |-> path]}]
    /\ Handled
    /\ UNCHANGED consumed

\* variant: the unauthorized attempt is not logged
protected_quiet(path) ==
    /\ IF session.user = None
       THEN /\ session' = [session EXCEPT !.redirect_after_login = Some(path)]
            /\ resp' = [NoResp EXCEPT
                          !.handler = "protected", !.status = 302, !.location = "/login"]
       ELSE /\ session' = session
            /\ resp' = [NoResp EXCEPT
                          !.handler = "protected", !.status = 200,
                          !.body = "protected.html", !.user = session.user,
                          !.audit = {[kind |-> "ACCESS",
                                      user_id |-> user_id(TheValue(session.user)),
                                      email |-> email(TheValue(session.user)),
                                      path |-> path]}]
    /\ Handled
    /\ UNCHANGED consumed

protected(path) ==
    /\ IF session.user = None
       THEN /\ session' = [session EXCEPT !.redirect_after_login = Some(path)]
            /\ resp' = [NoResp EXCEPT
                          !.handler = "protected", !.status = 302, !.location = "/login",
                          !.audit = {[kind |-> "UNAUTHORIZED_ACCESS", user_id |-> "",
                                      email |-> "", path |-> path]}]
       ELSE /\ session' = session
            /\ resp' = [NoResp EXCEPT
                          !.handler = "protected", !.status = 200,
                          !.body = "protected.html", !.user = session.user,
                          !.audit = {[kind |-> "ACCESS",
                                      user_id |-> user_id(TheValue(session.user)),
                                      email |-> email(TheValue(session.user)),
                                      path |-> path]}]
    /\ Handled
    /\ UNCHANGED consumed

\* whether the handler that gave this response changed its session, so that
\* the response carries the session cookie
modified(r) ==
    \/ r.handler = "callback" /\ (r.status = 302 \/ r.log = "MismatchingStateError" \/ r.tokenCall)
    \/ r.handler = "login" /\ r.status = 302
    \/ r.handler = "logout"
    \/ r.handler = "protected" /\ r.status = 302

\* the browser sends two requests at once: both carry the cookie of this
\* moment
send ==
    /\ other.pc \in {"idle", "received"}
    /\ other' = [pc |-> "sent", cookie |-> session]
    /\ UNCHANGED <<session, resp, prev, consumed, nreq, tracing>>

\* the server starts on the second request, opening the session from the
\* cookie the request carries
handle ==
    /\ other.pc = "first"
    /\ session' = other.cookie
    /\ other' = [pc |-> "handling", cookie |-> session]
    /\ UNCHANGED <<resp, prev, consumed, nreq, tracing>>

\* variant: the saved session is merged into the stored one key by key
receive_merge ==
    /\ other.pc = "answered"
    /\ session' = IF modified(resp)
                  THEN [user |-> IF session.user # None THEN session.user
                                 ELSE other.cookie.user,
                        redirect_after_login |->
                            IF session.redirect_after_login # None
                            THEN session.redirect_after_login
                            ELSE other.cookie.redirect_after_login,
                        states |-> session.states]
                  ELSE other.cookie
    /\ other' = [pc |-> "received", cookie |-> EmptySession]
    /\ UNCHANGED <<resp, prev, consumed, nreq, tracing>>

\* the browser has the first answer and receives the second: a response that
\* carries the session cookie replaces the browser's cookie as a whole
receive ==
    /\ other.pc = "answered"
    /\ session' = IF modified(resp) THEN session ELSE other.cookie
    /\ other' = [pc |-> "received", cookie |-> EmptySession]
    /\ UNCHANGED <<resp, prev, consumed, nreq, tracing>>

Next ==
    \/ home
    \/ \E req \in CallbackRequests(session) : callback(req)
    \/ \E fails \in BOOLEAN, state \in States, nonce \in Nonces : login(fails, state, nonce)
    \/ \E fails \in BOOLEAN : logout(fails)
    \/ protected("/protected")

Spec == Init /\ [][Next]_vars

\* the same program, remembering the request before the last one
InitTrace ==
    /\ session = EmptySession
    /\ resp = NoResp
    /\ prev = [handler |-> "none", status |-> 0]
    /\ consumed = {}
    /\ nreq = 0
    /\ tracing = TRUE
    /\ other = [pc |-> "idle", cookie |-> EmptySession]

SpecTrace == InitTrace /\ [][Next]_vars

\* the same program when the browser may send two requests at once
NextConc ==
    \/ Next
    \/ send
    \/ handle
    \/ receive

SpecConc == Init /\ [][NextConc]_vars

(* ---- properties ---- *)

TypeOK ==
    /\ session.user \in Opt(Tokens)
    /\ session.redirect_after_login \in Opt({"/protected"})
    /\ \A e \in session.states : e.state \in States /\ e.nonce \in Nonces
    /\ \A e1, e2 \in session.states : e1.state = e2.state => e1 = e2
    /\ consumed \subseteq States
    /\ nreq \in {0, 1}

\* this step handles a request to handler h
RequestStep(h) == nreq' # nreq /\ resp'.handler = h
\* the session holds a flow-state entry for this state
HasEntry(sess, state) == \E e \in sess.states : e.state = state
\* the subject of the user stored in a session, if any
SubjectOf(sess) ==
    IF sess.user = None \/ TheValue(sess.user).userinfo = None THEN None
    ELSE TheValue(TheValue(sess.user).userinfo).sub

\* C1: GET /protected answers 200 with the protected page only when the session
\* holds a user; when it holds none the answer is a 302 to /login and the
\* protected page is not rendered.
C1_AccessGate ==
    [][RequestStep("protected") =>
        /\ (resp'.status = 200 \/ resp'.body = "protected.html") => session.user # None
        /\ session.user = None =>
              /\ resp'.status = 302
              /\ resp'.location = "/login"
              /\ resp'.body # "protected.html"
              /\ resp'.user = None]_vars

C1_Witness ==
    /\ resp.handler = "protected"
    /\ resp.status = 302
    /\ resp.location = "/login"
    /\ session.user = None
    /\ consumed # {}

\* C2: GET /protected on a session without a user answers 302 to /login and
\* stores the requested path as redirect_after_login in the session saved with
\* that response; when the next two requests are a successful GET /login and a
\* successful /callback, the callback redirects to that path, not to "/".
C2_RedirectIntent ==
    [][/\ RequestStep("protected") /\ session.user = None =>
            /\ resp'.status = 302
            /\ resp'.location = "/login"
            /\ \E ev \in resp'.audit : session'.redirect_after_login = Some(ev.path)
       /\ /\ prev.handler = "protected" /\ prev.status = 302
          /\ resp.handler = "login" /\ resp.status = 302
          /\ RequestStep("callback") /\ resp'.status = 302
          => resp'.location = "/protected"]_vars

C2_Witness ==
    /\ prev.handler = "login" /\ prev.status = 302
    /\ resp.handler = "callback" /\ resp.status = 302
    /\ resp.location = "/protected"

\* C3: a /callback whose state has no entry in the session is rejected (500,
\* no redirect), and a session without a user is left without a user.
C3_StateMismatchRejected ==
    [][RequestStep("callback") /\ ~HasEntry(session, resp'.state) =>
        /\ resp'.status = 500
        /\ resp'.location = ""
        /\ session.user = None => session'.user = None]_vars

C3_Witness ==
    /\ resp.handler = "callback"
    /\ resp.log = "MismatchingStateError"
    /\ resp.status = 500
    /\ resp.state \in States
    /\ session.states # {}
    /\ session.user = None

\* C4: once a /callback with state S was accepted, every later /callback with
\* S is rejected until a /login issues S again; the entry of S leaves the
\* session when it is consumed.
C4_StateSingleUse ==
    [][RequestStep("callback") =>
        /\ resp'.state \in consumed =>
              resp'.status = 500 /\ session'.user = session.user
        /\ resp'.status = 302 => ~HasEntry(session', resp'.state)]_vars

C4_Witness ==
    /\ resp.handler = "callback"
    /\ resp.status = 500
    /\ resp.log = "MismatchingStateError"
    /\ resp.state \in consumed
    /\ session.states # {}

\* C5: GET /logout leaves the session empty whether it answers 302 or 500, and
\* the GET /protected that follows a /logout answers 302 to /login.
C5_LogoutClears ==
    [][/\ RequestStep("logout") =>
            session' = EmptySession /\ resp'.status \in {302, 500}
       /\ resp.handler = "logout" /\ RequestStep("protected") =>
            resp'.status = 302 /\ resp'.location = "/login"]_vars

C5_Witness ==
    /\ resp.handler = "logout"
    /\ resp.status = 500
    /\ session = EmptySession
    /\ consumed # {}

\* C6 as stated: a successful /callback leaves the session with the user, with
\* no flow state at all and with no redirect_after_login, and redirects to the
\* redirect_after_login stored before, or to "/".
C6_Original ==
    [][RequestStep("callback") /\ resp'.status = 302 =>
        /\ session'.user # None
        /\ session'.states = {}
        /\ session'.redirect_after_login = None
        /\ resp'.location = Get(session.redirect_after_login, "/")]_vars

\* C6 as amended: a successful /callback leaves the session with the user, with
\* no flow state for the state it carried and with no redirect_after_login,
\* and redirects to the redirect_after_login stored before, or to "/"; so the
\* successful /callback that follows another one with no other request in
\* between redirects to "/".
C6_Amended ==
    [][RequestStep("callback") /\ resp'.status = 302 =>
        /\ session'.user # None
        /\ ~HasEntry(session', resp'.state)
        /\ session'.redirect_after_login = None
        /\ resp'.location = Get(session.redirect_after_login, "/")
        /\ resp.handler = "callback" /\ resp.status = 302 => resp'.location = "/"]_vars

C6_Witness ==
    /\ resp.handler = "callback"
    /\ resp.status = 302
    /\ resp.location = "/protected"
    /\ session.redirect_after_login = None
    /\ session.user # None
    /\ session.states # {}

\* C7 as stated: every /callback that fails on a state mismatch, a nonce
\* mismatch, the token exchange or the token validation leaves the session
\* without a user and without flow state.
C7_Original ==
    [][/\ RequestStep("callback") /\ resp'.status = 500
       /\ (resp'.log = "MismatchingStateError" \/ resp'.tokenCall)
       => session'.user = None /\ session'.states = {}]_vars

\* C7 as amended: every failed /callback leaves the user of the session as it
\* was and adds no flow state; one that fails on the state check or after it
\* (state mismatch, token exchange, token validation, nonce mismatch) leaves no
\* flow state for the state it carried.
C7_Amended ==
    [][RequestStep("callback") /\ resp'.status = 500 =>
        /\ session'.user = session.user
        /\ session'.states \subseteq session.states
        /\ (resp'.log = "MismatchingStateError" \/ resp'.tokenCall) =>
              ~HasEntry(session', resp'.state)]_vars

C7_Witness ==
    /\ resp.handler = "callback"
    /\ resp.status = 500
    /\ resp.tokenCall
    /\ session.user # None
    /\ session.states # {}

\* C8: a user stored in the session always has a subject; a /callback whose
\* provider response carries no sub fails and stores no user.
C8_SubjectNeverEmpty ==
    [][RequestStep("callback") =>
        /\ session'.user # None => SubjectOf(session') # None
        /\ (resp'.tokenCall /\ (resp'.id_token = None \/ TheValue(resp'.id_token).sub = None))
              => resp'.status = 500 /\ session'.user = session.user]_vars

\* C9: after a successful /callback the subject of the stored user is the sub
\* of the ID token of that exchange; no request other than a successful
\* /callback or a /logout changes the stored user, and GET /protected renders
\* the stored user.
C9_SubjectIsIdTokenSub ==
    [][/\ RequestStep("callback") /\ resp'.status = 302 /\ resp'.id_token # None =>
            SubjectOf(session') = TheValue(resp'.id_token).sub
       /\ /\ nreq' # nreq
          /\ ~(resp'.handler = "callback" /\ resp'.status = 302)
          /\ resp'.handler # "logout"
          => session'.user = session.user
       /\ RequestStep("protected") /\ session.user # None =>
            /\ resp'.user = session.user
            /\ \E ev \in resp'.audit :
                 ev.user_id = Get(SubjectOf(session), "unknown")]_vars

C9_Witness ==
    /\ resp.handler = "protected"
    /\ resp.status = 200
    /\ SubjectOf(session) = Some("user456")
    /\ SubjectOf([user |-> resp.user]) = Some("user456")
    /\ Cardinality(consumed) = 2

\* C10: a /callback whose state has no entry in the session is rejected before
\* the token endpoint is called.
C10_StateCheckedBeforeTokenCall ==
    [][RequestStep("callback") /\ ~HasEntry(session, resp'.state) =>
        ~resp'.tokenCall]_vars

C10_Witness ==
    /\ resp.handler = "callback"
    /\ resp.log = "MismatchingStateError"
    /\ ~resp.tokenCall
    /\ resp.state \in States
    /\ \E e \in session.states : e.state # resp.state

\* C11 as stated: a GET /login answered with the 302 to the provider leaves
\* the session with the state and nonce of the flow recorded and without user.
C11_Original ==
    [][RequestStep("login") /\ resp'.status = 302 =>
        /\ \E e \in session'.states : e.state = resp'.state /\ e.nonce \in Nonces
        /\ session'.user = None]_vars

\* C11 as amended: a GET /login answered with the 302 to the provider leaves
\* the session with the state and nonce of the flow recorded and with the user
\* it had before: none for a session without user, the same user otherwise; a
\* failed GET /login (500) records nothing.
C11_Amended ==
    [][RequestStep("login") =>
        /\ resp'.status = 302 =>
              /\ resp'.state \in States
              /\ \E e \in session'.states : e.state = resp'.state /\ e.nonce \in Nonces
        /\ resp'.status # 302 => resp'.status = 500 /\ session'.states = session.states
        /\ session'.user = session.user]_vars

C11_Witness ==
    /\ resp.handler = "login"
    /\ resp.status = 302
    /\ HasEntry(session, resp.state)
    /\ session.user # None

\* C12: every failed /callback answers 500 with one fixed body, whatever the
\* exception; the exception goes to the log only.
C12_GenericError ==
    [][RequestStep("callback") /\ resp'.status # 302 =>
        /\ resp'.status = 500
        /\ resp'.body = "An error occurred during login callback."
        /\ resp'.log # ""
        /\ resp'.location = "" /\ resp'.user = None /\ resp'.audit = {}]_vars

C12_Witness ==
    /\ resp.handler = "callback"
    /\ resp.status = 500
    /\ resp.log = "InvalidTokenError"
    /\ resp.body = "An error occurred during login callback."

\* C13: GET / answers 200 and leaves the session as it was.
C13_HomeReadOnly ==
    [][RequestStep("home") =>
        /\ resp'.status = 200
        /\ session' = session
        /\ resp'.user = session.user]_vars

C13_Witness ==
    /\ resp.handler = "home"
    /\ resp.status = 200
    /\ session.user # None
    /\ session.states # {}

\* the audit event of a kind with these fields
Event(kind, uid, mail, path) == [kind |-> kind, user_id |-> uid, email |-> mail, path |-> path]
\* the email of the user stored in a session, if any
EmailOf(sess) ==
    IF sess.user = None \/ TheValue(sess.user).userinfo = None THEN None
    ELSE TheValue(TheValue(sess.user).userinfo).email

\* C15: a successful /callback logs exactly one LOGIN event, with the subject
\* and email of the user it stored, and a failed one logs none; GET /protected
\* logs exactly one UNAUTHORIZED_ACCESS event with the path when the session
\* has no user and exactly one ACCESS event with the subject and email of the
\* stored user and the path when it has one ("unknown" standing for a claim
\* the user lacks); the other handlers log no audit event.
C15_AuditEvents ==
    [][nreq' # nreq =>
        /\ resp'.handler = "callback" /\ resp'.status = 302 =>
              resp'.audit = {Event("LOGIN", Get(SubjectOf(session'), "unknown"),
                                   Get(EmailOf(session'), "unknown"), "")}
        /\ resp'.handler = "callback" /\ resp'.status # 302 => resp'.audit = {}
        /\ resp'.handler = "protected" /\ session.user = None =>
              resp'.audit = {Event("UNAUTHORIZED_ACCESS", "", "", "/protected")}
        /\ resp'.handler = "protected" /\ session.user # None =>
              resp'.audit = {Event("ACCESS", Get(SubjectOf(session), "unknown"),
                                   Get(EmailOf(session), "unknown"), "/protected")}
        /\ resp'.handler \in {"home", "login", "logout"} => resp'.audit = {}]_vars

C15_Witness ==
    /\ resp.handler = "protected"
    /\ resp.audit = {Event("ACCESS", "user123", "a@example.com", "/protected")}
    /\ session.user # None

\* C16: the user of the session changes in two places only: a successful
\* /callback replaces it by the token set of that exchange, whatever was there,
\* and /logout removes it; GET /, GET /login, GET /protected and every failed
\* /callback leave it as it was.
C16_PrincipalFrame ==
    [][nreq' # nreq =>
        /\ resp'.handler = "callback" /\ resp'.status = 302 =>
              session'.user = Some([userinfo |-> resp'.id_token])
        /\ resp'.handler = "logout" => session'.user = None
        /\ resp'.handler = "home" => session'.user = session.user
        /\ resp'.handler = "login" => session'.user = session.user
        /\ resp'.handler = "protected" => session'.user = session.user
        /\ resp'.handler = "callback" /\ resp'.status = 500 =>
              session'.user = session.user]_vars

C16_Witness ==
    /\ resp.handler = "callback"
    /\ resp.status = 302
    /\ SubjectOf(session) = Some("user456")
    /\ Cardinality(consumed) = 2

\* C17: redirect_after_login is set only by a GET /protected on a session
\* without user, to the path of that request; so it is absent or such a path,
\* and a successful /callback redirects to "/" or to such a path, whatever the
\* parameters of the /login and /callback requests.
C17_NoOpenRedirect ==
    [][nreq' # nreq =>
        /\ (session'.redirect_after_login # session.redirect_after_login
            /\ session'.redirect_after_login # None) =>
              /\ resp'.handler = "protected" /\ session.user = None
              /\ resp'.audit = {Event("UNAUTHORIZED_ACCESS", "", "",
                                      TheValue(session'.redirect_after_login))}
        /\ session'.redirect_after_login \in {None, Some("/protected")}
        /\ resp'.handler = "callback" /\ resp'.status = 302 =>
              resp'.location \in {"/"} \cup session.redirect_after_login]_vars

C17_Witness ==
    /\ resp.handler = "callback"
    /\ resp.status = 302
    /\ resp.location = "/protected"
    /\ resp.state \in States
    /\ session.states = {}

\* C18: in the sequence GET /login (answered 302, a state issued), GET /logout,
\* /callback, the callback is rejected whatever state it carries and the
\* session stays empty: the entry recorded by /login went with the rest.
C18_LogoutDiscardsFlow ==
    [][/\ prev.handler = "login" /\ prev.status = 302
       /\ resp.handler = "logout"
       /\ RequestStep("callback")
       => /\ resp'.status = 500
          /\ ~resp'.tokenCall
          /\ session' = EmptySession]_vars

C18_Witness ==
    /\ prev.handler = "logout"
    /\ resp.handler = "callback"
    /\ resp.status = 500
    /\ resp.log = "MismatchingStateError"
    /\ resp.state \in States \ consumed
    /\ session = EmptySession

\* C19: a failed /callback leaves redirect_after_login as it was, and so does
\* GET /login; the successful /callback that comes later, with no /logout in
\* between, redirects to the path still stored.
C19_FailureKeepsIntent ==
    [][nreq' # nreq =>
        /\ resp'.handler = "callback" /\ resp'.status = 500 =>
              session'.redirect_after_login = session.redirect_after_login
        /\ resp'.handler \in {"login", "home"} =>
              session'.redirect_after_login = session.redirect_after_login
        /\ (resp'.handler = "callback" /\ resp'.status = 302
            /\ session.redirect_after_login # None) =>
              resp'.location = TheValue(session.redirect_after_login)]_vars

C19_Witness ==
    /\ resp.handler = "callback"
    /\ resp.status = 500
    /\ resp.tokenCall
    /\ session.redirect_after_login = Some("/protected")


====
